---- MODULE Spec2Model ----
(***************************************************************************)
(* A model of the coio-rs global coroutine scheduler (src/src/scheduler.rs) *)
(* together with the processor loop, the run queue and the coroutine        *)
(* life cycle it drives.  Scheduler::new/with_workers/run/spawn_opts/       *)
(* proc_wait/finished/ready/sched/block and JoinHandle::join are translated *)
(* from scheduler.rs; the Processor, the work-stealing deque and the        *)
(* coroutine-aware channel live outside that file and are modelled from     *)
(* their description in the design document (sections 4.1-4.3, 4.5).        *)
(***************************************************************************)
EXTENDS Integers, Sequences, FiniteSets, TLC

\* ------------------------------------------------------------------ bounds
\* Largest worker count explored: with_workers(n) for n in 1..MaxWorkers.
MaxWorkers == 2
\* Number of coroutines that may be spawned besides the main coroutine.
MaxSpawn == 2

\* ------------------------------------------------------- program constants
\* work_counts is an AtomicUsize: 64 bits, kept as four 16-bit limbs
\* (least significant first) so that fetch_add/fetch_sub wrap as in the code.
LimbBase == 65536
NumLimbs == 4

Procs == 0 .. (MaxWorkers - 1)
MainCoro == 0
Coros == 0 .. MaxSpawn
NoCoro == -1
NoThread == -1
\* the thread that called Scheduler::run
RunThreadId == MaxWorkers

VARIABLES
    expected_worker_count, \* Scheduler.expected_worker_count
    starving,              \* the usize behind starving_lock.0 (limbs)
    poisoned,              \* the starving mutex is poisoned
    lock_owner,            \* the processor holding the starving mutex, or NoThread
    cond_waiters,          \* processors blocked in starving_lock.1.wait
    work_counts,           \* Scheduler.work_counts (limbs)
    proc_handles,          \* Scheduler.proc_handles: worker ids, in push order
    run_pc,                \* position of the thread executing Scheduler::run
    run_i,                 \* index of run's current (outer) for loop
    run_j,                 \* index of run's inner NewNeighbor loop
    handles,               \* run's local Vec of thread join handles
    main_ret,              \* run's local main_ret (<<>> until received)
    run_ret,               \* the value run returned (<<>> until it returns)
    proc_handles_guard,    \* the thread holding the proc_handles mutex
    pc,                    \* per processor: position in its thread
    queue,                 \* per processor: local run queue, hot end last
    inbox,                 \* per processor: message channel
    neighbors,             \* per processor: stealers it knows
    running,               \* per processor: the coroutine in its running slot
    co_state,              \* per coroutine: life-cycle state
    co_pc,                 \* per coroutine: position inside its current call
    spawner,               \* per coroutine: who holds its JoinHandle
    ret,                   \* per coroutine: what the closure did (<<>> = not yet)
    chan,                  \* per coroutine: result channel contents
    sender_alive,          \* per coroutine: the channel's tx still exists
    join_results,          \* per coroutine: what join() on its handle returned
    recv_waiting,          \* per coroutine: the channel whose recv it is inside
    resumed,               \* the coroutines that were resumed at least once
    parked                 \* coroutines held by an external parker

sched_vars == <<expected_worker_count, starving, poisoned, lock_owner,
                cond_waiters, work_counts, proc_handles>>
run_vars   == <<run_pc, run_i, run_j, handles, main_ret, run_ret,
                proc_handles_guard>>
proc_vars  == <<pc, queue, inbox, neighbors, running>>
coro_vars  == <<co_state, co_pc, spawner, ret, chan, sender_alive,
                join_results, recv_waiting, resumed, parked>>
vars == <<sched_vars, run_vars, proc_vars, coro_vars>>

\* ------------------------------------------------------------ pure helpers
Workers == 0 .. (expected_worker_count - 1)

\* AtomicUsize::new(0)
UsizeZero == [i \in 1 .. NumLimbs |-> 0]
\* usize::MAX
UsizeMax == [i \in 1 .. NumLimbs |-> LimbBase - 1]
\* the usize value n, for n below LimbBase
SmallUsize(n) == [i \in 1 .. NumLimbs |-> IF i = 1 THEN n ELSE 0]

RECURSIVE IncLimbs(_, _)
IncLimbs(w, i) ==
    IF i > NumLimbs THEN w
    ELSE IF w[i] = LimbBase - 1 THEN IncLimbs([w EXCEPT ![i] = 0], i + 1)
    ELSE [w EXCEPT ![i] = w[i] + 1]

RECURSIVE DecLimbs(_, _)
DecLimbs(w, i) ==
    IF i > NumLimbs THEN w
    ELSE IF w[i] = 0 THEN DecLimbs([w EXCEPT ![i] = LimbBase - 1], i + 1)
    ELSE [w EXCEPT ![i] = w[i] - 1]

\* work_counts.fetch_add(1, SeqCst): wrapping
FetchAdd(w) == IncLimbs(w, 1)

\* work_counts.fetch_sub(1, SeqCst): wrapping
FetchSub(w) == DecLimbs(w, 1)

\* *guard -= 1 and *guard += 1 on the usize behind the starving mutex, as
\* a build without overflow checks computes them: wrapping.  A build with
\* overflow checks panics instead where the result would wrap.
SubOne(w) == DecLimbs(w, 1)
AddOne(w) == IncLimbs(w, 1)
\* the two kinds of build: with and without overflow checks
OverflowChecks == BOOLEAN

\* What a closure does: returns a value or panics with a payload.
\* Coroutine c returns c, or panics with payload c.
Returned(c) == [kind |-> "return", val |-> c]
Panicked(c) == [kind |-> "panic", val |-> c]

\* ::try(move || f()): a return becomes Ok(v), a panic Err(payload)
TryBad(o) == [tag |-> "Ok", val |-> o.val]
Try(o) ==
    IF o.kind = "return" THEN [tag |-> "Ok", val |-> o.val]
    ELSE [tag |-> "Err", val |-> o.val]

\* Messages of a processor's inbox
NewNeighbor(st) == [type |-> "NewNeighbor", st |-> st]
Shutdown == [type |-> "Shutdown"]

\* Run queue (work-stealing deque): owner pushes and pops at the hot end,
\* thieves take from the cold end.
Push(q, c) == Append(q, c)
PopItem(q) == q[Len(q)]
PopRest(q) == SubSeq(q, 1, Len(q) - 1)
StealItem(q) == Head(q)
StealRest(q) == Tail(q)

SeqToSet(s) == {s[i] : i \in 1 .. Len(s)}

\* --------------------------------------------------------------------- Init
\* Scheduler::new().with_workers(n), before run is called.
Init ==
    /\ expected_worker_count \in 1 .. MaxWorkers
    /\ starving = UsizeZero
    /\ poisoned = FALSE
    /\ lock_owner = NoThread
    /\ cond_waiters = {}
    /\ work_counts = UsizeZero
    /\ proc_handles = <<>>
    /\ run_pc = "set_one"
    /\ run_i = 0
    /\ run_j = 0
    /\ handles = <<>>
    /\ main_ret = <<>>
    /\ run_ret = <<>>
    /\ proc_handles_guard = NoThread
    /\ pc = [p \in Procs |-> "not_started"]
    /\ queue = [p \in Procs |-> <<>>]
    /\ inbox = [p \in Procs |-> <<>>]
    /\ neighbors = [p \in Procs |-> {}]
    /\ running = [p \in Procs |-> NoCoro]
    /\ co_state = [c \in Coros |-> "Unborn"]
    /\ co_pc = [c \in Coros |-> "body"]
    /\ spawner = [c \in Coros |-> NoCoro]
    /\ ret = [c \in Coros |-> <<>>]
    /\ chan = [c \in Coros |-> <<>>]
    /\ sender_alive = [c \in Coros |-> FALSE]
    /\ join_results = [c \in Coros |-> <<>>]
    /\ recv_waiting = [c \in Coros |-> NoCoro]
    /\ resumed = {}
    /\ parked = {}

\* ------------------------------------------------------- Scheduler::run
\* line 167: *the_sched.starving_lock.0.lock().unwrap() = 1;
\* lock() on a poisoned mutex returns Err and unwrap panics: run unwinds
\* having stored nothing (run_pc records the statement that panicked)
RunSetOne ==
    /\ run_pc = "set_one"
    /\ lock_owner = NoThread
    /\ starving' = IF poisoned THEN starving ELSE SmallUsize(1)
    /\ run_pc' = IF poisoned THEN "panicked_set_one" ELSE "start_main"
    /\ UNCHANGED <<expected_worker_count, poisoned, lock_owner, cond_waiters,
                   work_counts, proc_handles, run_i, run_j, handles,
                   proc_handles_guard, main_ret, run_ret, proc_vars,
                   coro_vars>>

\* lines 168-177: Processor::run_main starts worker 0 with the main coroutine
\* as the first coroutine of its queue; the main coroutine is created by the
\* processor, not by Scheduler::spawn_opts, so work_counts is not touched.
\* The proc_handles guard of line 170 is taken and dropped within the block.
RunStartMain ==
    /\ run_pc = "start_main"
    /\ proc_handles_guard = NoThread
    /\ pc' = [pc EXCEPT ![0] = "drain"]
    /\ queue' = [queue EXCEPT ![0] = Push(queue[0], MainCoro)]
    /\ co_state' = [co_state EXCEPT ![MainCoro] = "Runnable"]
    /\ sender_alive' = [sender_alive EXCEPT ![MainCoro] = TRUE]
    /\ handles' = Append(handles, 0)
    /\ proc_handles' = Append(proc_handles, 0)
    /\ run_pc' = "set_n"
    /\ UNCHANGED <<expected_worker_count, poisoned, starving, lock_owner,
                   cond_waiters, work_counts, run_i, run_j, main_ret, run_ret,
                   proc_handles_guard, inbox, neighbors, running, co_pc,
                   spawner, ret, chan, join_results, recv_waiting, resumed,
                   parked>>

\* line 179: the counter is set to expected_worker_count; line 182 opens the
\* loop over tid in 1..expected_worker_count.
SetNValueBad == expected_worker_count - 1
SetNValue == expected_worker_count

RunSetN ==
    /\ run_pc = "set_n"
    /\ lock_owner = NoThread
    /\ starving' = IF poisoned THEN starving ELSE SmallUsize(SetNValue)
    /\ run_i' = 1
    /\ run_pc' = IF poisoned THEN "panicked_set_n"
                 ELSE IF 1 < expected_worker_count THEN "start_worker"
                 ELSE "recv_main"
    /\ UNCHANGED <<expected_worker_count, poisoned, lock_owner, cond_waiters,
                   work_counts, proc_handles, run_j, handles,
                   proc_handles_guard, main_ret, run_ret, proc_vars,
                   coro_vars>>

\* lines 183-188: the proc_handles mutex is locked for this iteration and
\* Processor::run_with_neighbors starts worker run_i, seeded with the
\* stealers of the workers already in proc_handles.
RunStartWorker ==
    /\ run_pc = "start_worker"
    /\ proc_handles_guard = NoThread
    /\ proc_handles_guard' = RunThreadId
    /\ pc' = [pc EXCEPT ![run_i] = "drain"]
    /\ neighbors' = [neighbors EXCEPT ![run_i] = SeqToSet(proc_handles)]
    /\ run_j' = 1
    /\ run_pc' = "send_neighbor"
    /\ UNCHANGED <<sched_vars, run_i, handles, main_ret, run_ret, queue,
                   inbox, running, coro_vars>>

\* lines 190-194: one msg.send(NewNeighbor(st)) per existing worker
RunSendNeighborBad ==
    /\ run_pc = "send_neighbor"
    /\ proc_handles_guard = RunThreadId
    /\ run_j <= Len(proc_handles)
    /\ run_j' = run_j + 1
    /\ UNCHANGED <<sched_vars, run_pc, run_i, handles, proc_handles_guard,
                   main_ret, run_ret, proc_vars, coro_vars>>

RunSendNeighbor ==
    /\ run_pc = "send_neighbor"
    /\ proc_handles_guard = RunThreadId
    /\ run_j <= Len(proc_handles)
    /\ inbox' = [inbox EXCEPT ![proc_handles[run_j]] =
                     Append(@, NewNeighbor(run_i))]
    /\ run_j' = run_j + 1
    /\ UNCHANGED <<sched_vars, run_pc, run_i, handles, proc_handles_guard,
                   main_ret, run_ret, pc, queue, neighbors, running,
                   coro_vars>>

\* lines 196-198: handles.push(hdl); proc_handles.push((msg, st)); the guard
\* is dropped at the end of the iteration; next tid
RunPushHandleBad ==
    /\ run_pc = "send_neighbor"
    /\ proc_handles_guard = RunThreadId
    /\ run_j > Len(proc_handles)
    /\ handles' = Append(handles, run_i)
    /\ proc_handles_guard' = NoThread
    /\ run_i' = run_i + 1
    /\ run_pc' = IF run_i + 1 < expected_worker_count
                 THEN "start_worker" ELSE "recv_main"
    /\ UNCHANGED <<sched_vars, run_j, main_ret, run_ret, proc_vars,
                   coro_vars>>

RunPushHandle ==
    /\ run_pc = "send_neighbor"
    /\ proc_handles_guard = RunThreadId
    /\ run_j > Len(proc_handles)
    /\ handles' = Append(handles, run_i)
    /\ proc_handles' = Append(proc_handles, run_i)
    /\ proc_handles_guard' = NoThread
    /\ run_i' = run_i + 1
    /\ run_pc' = IF run_i + 1 < expected_worker_count
                 THEN "start_worker" ELSE "recv_main"
    /\ UNCHANGED <<expected_worker_count, poisoned, starving, lock_owner,
                   cond_waiters, work_counts, run_j, main_ret, run_ret,
                   proc_vars, coro_vars>>

\* line 200: let main_ret = main_coro_hdl.recv().unwrap();
\* recv returns the outcome once it is in the channel; on an empty channel
\* whose sender is gone it returns Err, unwrap panics and run unwinds with
\* no Shutdown sent
RunRecvMainBad ==
    /\ run_pc = "recv_main"
    /\ (chan[MainCoro] /= <<>> /\ work_counts = UsizeZero)
           \/ (chan[MainCoro] = <<>> /\ ~sender_alive[MainCoro])
    /\ IF chan[MainCoro] /= <<>>
       THEN /\ main_ret' = <<Head(chan[MainCoro])>>
            /\ chan' = [chan EXCEPT ![MainCoro] = Tail(@)]
            /\ run_i' = 1
            /\ run_pc' = "shutdown"
       ELSE /\ run_pc' = "panicked_recv"
            /\ UNCHANGED <<main_ret, chan, run_i>>
    /\ UNCHANGED <<sched_vars, run_j, handles, proc_handles_guard, run_ret,
                   proc_vars, co_state, co_pc, spawner, ret, sender_alive,
                   join_results, recv_waiting, resumed, parked>>

RunRecvMain ==
    /\ run_pc = "recv_main"
    /\ chan[MainCoro] /= <<>> \/ ~sender_alive[MainCoro]
    /\ IF chan[MainCoro] /= <<>>
       THEN /\ main_ret' = <<Head(chan[MainCoro])>>
            /\ chan' = [chan EXCEPT ![MainCoro] = Tail(@)]
            /\ run_i' = 1
            /\ run_pc' = "shutdown"
       ELSE /\ run_pc' = "panicked_recv"
            /\ UNCHANGED <<main_ret, chan, run_i>>
    /\ UNCHANGED <<sched_vars, run_j, handles, proc_handles_guard, run_ret,
                   proc_vars, co_state, co_pc, spawner, ret, sender_alive,
                   join_results, recv_waiting, resumed, parked>>

\* lines 201-203: one msg.send(Shutdown) per entry of proc_handles; the
\* guard returned by proc_handles.lock() in the loop header is a temporary
\* that lives until the loop ends
RunSendShutdownBad ==
    /\ run_pc = "shutdown"
    /\ run_i <= Len(proc_handles)
    /\ proc_handles_guard = IF run_i = 1 THEN NoThread ELSE RunThreadId
    /\ inbox' = [inbox EXCEPT ![proc_handles[run_i]] = Append(@, Shutdown)]
    /\ run_i' = run_i + 1
    /\ run_pc' = IF run_i = Len(proc_handles) THEN "lock" ELSE "shutdown"
    /\ proc_handles_guard' = RunThreadId
    /\ UNCHANGED <<sched_vars, run_j, handles, main_ret, run_ret, pc, queue,
                   neighbors, running, coro_vars>>

RunSendShutdown ==
    /\ run_pc = "shutdown"
    /\ run_i <= Len(proc_handles)
    /\ proc_handles_guard = IF run_i = 1 THEN NoThread ELSE RunThreadId
    /\ inbox' = [inbox EXCEPT ![proc_handles[run_i]] = Append(@, Shutdown)]
    /\ run_i' = run_i + 1
    /\ run_pc' = IF run_i = Len(proc_handles) THEN "lock" ELSE "shutdown"
    /\ proc_handles_guard' =
           IF run_i = Len(proc_handles) THEN NoThread ELSE RunThreadId
    /\ UNCHANGED <<sched_vars, run_j, handles, main_ret, run_ret, pc, queue,
                   neighbors, running, coro_vars>>

\* line 206: let _ = lock.lock().unwrap();  the guard is not bound to a
\* name, so it is dropped at the end of the statement: lock, then unlock.
RunLockUnlock ==
    /\ run_pc = "lock"
    /\ lock_owner = NoThread
    /\ run_pc' = IF poisoned THEN "panicked_lock" ELSE "notify_all"
    /\ UNCHANGED <<sched_vars, run_i, run_j, handles, proc_handles_guard,
                   main_ret, run_ret, proc_vars, coro_vars>>

\* line 207: cond.notify_all();
RunNotifyAll ==
    /\ run_pc = "notify_all"
    /\ cond_waiters' = {}
    /\ run_i' = 1
    /\ run_pc' = "join"
    /\ UNCHANGED <<expected_worker_count, poisoned, starving, lock_owner,
                   work_counts, proc_handles, run_j, handles,
                   proc_handles_guard, main_ret, run_ret, proc_vars,
                   coro_vars>>

\* lines 209-211: hdl.join() returns once that worker thread has terminated
JoinedBad(w) == TRUE
Joined(w) == pc[w] = "exited"
\* the worker thread ended by a panic: hdl.join() returns Err
Unwound(w) == pc[w] = "panicked"

\* hdl.join().unwrap(): the next handle, or a panic of run on an Err
RunJoin ==
    /\ run_pc = "join"
    /\ run_i <= Len(handles)
    /\ Joined(handles[run_i]) \/ Unwound(handles[run_i])
    /\ run_i' = IF Unwound(handles[run_i]) THEN run_i ELSE run_i + 1
    /\ run_pc' = IF Unwound(handles[run_i]) THEN "panicked_join" ELSE run_pc
    /\ UNCHANGED <<sched_vars, run_j, handles, proc_handles_guard, main_ret,
                   run_ret, proc_vars, coro_vars>>

\* line 213: main_ret
RunReturnBad ==
    /\ run_pc = "join"
    /\ run_i > Len(handles)
    /\ run_ret' = <<[tag |-> "Ok", val |-> main_ret[1].val]>>
    /\ run_pc' = "returned"
    /\ UNCHANGED <<sched_vars, run_i, run_j, handles, proc_handles_guard,
                   main_ret, proc_vars, coro_vars>>

RunReturn ==
    /\ run_pc = "join"
    /\ run_i > Len(handles)
    /\ run_ret' = main_ret
    /\ run_pc' = "returned"
    /\ UNCHANGED <<sched_vars, run_i, run_j, handles, proc_handles_guard,
                   main_ret, proc_vars, coro_vars>>

RunThread ==
    \/ RunSetOne \/ RunStartMain \/ RunSetN \/ RunStartWorker
    \/ RunSendNeighbor \/ RunPushHandle \/ RunRecvMain \/ RunSendShutdown
    \/ RunLockUnlock \/ RunNotifyAll \/ RunJoin \/ RunReturn

\* ------------------------------------------------ Processor: schedule loop
HasShutdown(msgs) == \E i \in 1 .. Len(msgs) : msgs[i].type = "Shutdown"
NewStealers(msgs) ==
    {msgs[i].st : i \in {k \in 1 .. Len(msgs) : msgs[k].type = "NewNeighbor"}}

\* loop head: drain_messages(), then the test of the shutdown flag
Drain(p) ==
    /\ pc[p] = "drain"
    /\ neighbors' = [neighbors EXCEPT ![p] = @ \cup NewStealers(inbox[p])]
    /\ inbox' = [inbox EXCEPT ![p] = <<>>]
    /\ pc' = [pc EXCEPT ![p] = IF HasShutdown(inbox[p]) THEN "exit" ELSE "pop"]
    /\ UNCHANGED <<sched_vars, run_vars, queue, running, coro_vars>>

\* shutdown flag set: the loop breaks, the thread ends, and the coroutines
\* left in the local queue are dropped together with their result senders.
ProcExit(p) ==
    /\ pc[p] = "exit"
    /\ co_state' = [c \in Coros |->
                      IF c \in SeqToSet(queue[p]) THEN "Dropped" ELSE co_state[c]]
    /\ sender_alive' = [c \in Coros |->
                      IF c \in SeqToSet(queue[p]) THEN FALSE ELSE sender_alive[c]]
    /\ queue' = [queue EXCEPT ![p] = <<>>]
    /\ pc' = [pc EXCEPT ![p] = "exited"]
    /\ UNCHANGED <<sched_vars, run_vars, inbox, neighbors, running, co_pc,
                   spawner, ret, chan, join_results, recv_waiting, resumed,
                   parked>>

\* (A) local work: pop the hot end and resume it
\* a coroutine's home back-pointer is set on its first resumption; only
\* whether it is set is kept
FirstResumed(c) == resumed \cup {c}

PopLocal(p) ==
    /\ pc[p] = "pop"
    /\ queue[p] /= <<>>
    /\ running' = [running EXCEPT ![p] = PopItem(queue[p])]
    /\ co_state' = [co_state EXCEPT ![PopItem(queue[p])] = "Running"]
    /\ resumed' = FirstResumed(PopItem(queue[p]))
    /\ queue' = [queue EXCEPT ![p] = PopRest(@)]
    /\ pc' = [pc EXCEPT ![p] = "run"]
    /\ UNCHANGED <<sched_vars, run_vars, inbox, neighbors, co_pc, spawner,
                   ret, chan, sender_alive, join_results, recv_waiting,
                   parked>>

PopEmpty(p) ==
    /\ pc[p] = "pop"
    /\ queue[p] = <<>>
    /\ pc' = [pc EXCEPT ![p] = "steal"]
    /\ UNCHANGED <<sched_vars, run_vars, queue, inbox, neighbors, running,
                   coro_vars>>

\* (B) steal the cold end of a neighbor's queue and resume it
Steal(p, v) ==
    /\ pc[p] = "steal"
    /\ v \in neighbors[p]
    /\ queue[v] /= <<>>
    /\ running' = [running EXCEPT ![p] = StealItem(queue[v])]
    /\ co_state' = [co_state EXCEPT ![StealItem(queue[v])] = "Running"]
    /\ resumed' = FirstResumed(StealItem(queue[v]))
    /\ queue' = [queue EXCEPT ![v] = StealRest(@)]
    /\ pc' = [pc EXCEPT ![p] = "run"]
    /\ UNCHANGED <<sched_vars, run_vars, inbox, neighbors, co_pc, spawner,
                   ret, chan, sender_alive, join_results, recv_waiting,
                   parked>>

\* every neighbor's queue was found empty (the reactor has nothing either):
\* (D) the processor calls scheduler.proc_wait()
StealNone(p) ==
    /\ pc[p] = "steal"
    /\ \A v \in neighbors[p] : queue[v] = <<>>
    /\ pc' = [pc EXCEPT ![p] = "pw_lock"]
    /\ UNCHANGED <<sched_vars, run_vars, queue, inbox, neighbors, running,
                   coro_vars>>

\* ------------------------------------------------- Scheduler::proc_wait
\* lines 100-101: let mut guard = lock.lock().unwrap(); *guard -= 1;
\* On a poisoned mutex unwrap panics.  On a counter of 0 the subtraction
\* wraps to usize::MAX in a build without overflow checks; in a build with
\* them it panics with the guard held, which poisons the mutex, leaves the
\* counter at 0 and releases the mutex while the thread unwinds.
ProcWaitLock(p) ==
    /\ pc[p] = "pw_lock"
    /\ lock_owner = NoThread
    /\ \E checks \in OverflowChecks :
           IF poisoned \/ (checks /\ starving = UsizeZero)
           THEN /\ poisoned' = TRUE
                /\ pc' = [pc EXCEPT ![p] = "panicked"]
                /\ UNCHANGED <<starving, lock_owner>>
           ELSE /\ lock_owner' = p
                /\ starving' = SubOne(starving)
                /\ pc' = [pc EXCEPT ![p] = "pw_check"]
                /\ UNCHANGED poisoned
    /\ UNCHANGED <<expected_worker_count, cond_waiters, work_counts,
                   proc_handles, run_vars, queue, inbox, neighbors, running,
                   coro_vars>>

\* lines 102-105: if *guard != 0 { guard = cond.wait(guard).unwrap(); }
\* cond.wait releases the mutex and blocks in one atomic step.
ProcWaitParkBad(p) ==
    /\ pc[p] = "pw_check"
    /\ lock_owner' = NoThread
    /\ cond_waiters' = cond_waiters \cup {p}
    /\ pc' = [pc EXCEPT ![p] = "pw_wait"]
    /\ UNCHANGED <<expected_worker_count, poisoned, starving, work_counts,
                   proc_handles, run_vars, queue, inbox, neighbors, running,
                   coro_vars>>

ProcWaitPark(p) ==
    /\ pc[p] = "pw_check"
    /\ starving /= UsizeZero
    /\ lock_owner' = NoThread
    /\ cond_waiters' = cond_waiters \cup {p}
    /\ pc' = [pc EXCEPT ![p] = "pw_wait"]
    /\ UNCHANGED <<expected_worker_count, poisoned, starving, work_counts,
                   proc_handles, run_vars, queue, inbox, neighbors, running,
                   coro_vars>>

\* line 102, condition false: the wait is skipped
ProcWaitSkipBad(p) ==
    /\ pc[p] = "pw_check"
    /\ starving = UsizeZero
    /\ lock_owner' = NoThread
    /\ cond_waiters' = cond_waiters \cup {p}
    /\ pc' = [pc EXCEPT ![p] = "pw_wait"]
    /\ UNCHANGED <<expected_worker_count, poisoned, starving, work_counts,
                   proc_handles, run_vars, queue, inbox, neighbors, running,
                   coro_vars>>

ProcWaitSkip(p) ==
    /\ pc[p] = "pw_check"
    /\ starving = UsizeZero
    /\ pc' = [pc EXCEPT ![p] = "pw_inc"]
    /\ UNCHANGED <<sched_vars, run_vars, queue, inbox, neighbors, running,
                   coro_vars>>

\* line 104, return of cond.wait: the woken thread re-acquires the mutex;
\* if the mutex is poisoned wait returns Err, unwrap panics and the guard is
\* dropped while the thread unwinds
ProcWaitWake(p) ==
    /\ pc[p] = "pw_wait"
    /\ p \notin cond_waiters
    /\ lock_owner = NoThread
    /\ lock_owner' = IF poisoned THEN NoThread ELSE p
    /\ pc' = [pc EXCEPT ![p] = IF poisoned THEN "panicked" ELSE "pw_inc"]
    /\ UNCHANGED <<expected_worker_count, poisoned, starving, cond_waiters,
                   work_counts, proc_handles, run_vars, queue, inbox,
                   neighbors, running, coro_vars>>

\* Condvar::wait may return without any notification
SpuriousWake(p) ==
    /\ p \in cond_waiters
    /\ cond_waiters' = cond_waiters \ {p}
    /\ UNCHANGED <<expected_worker_count, poisoned, starving, lock_owner,
                   work_counts, proc_handles, run_vars, proc_vars, coro_vars>>

\* lines 106-107: *guard += 1; the guard is dropped on return.  On a
\* counter of usize::MAX the addition wraps to 0 in a build without overflow
\* checks and panics, poisoning the mutex, in a build with them.
ProcWaitIncBad(p) ==
    /\ pc[p] = "pw_inc"
    /\ starving' = AddOne(AddOne(starving))
    /\ lock_owner' = NoThread
    /\ pc' = [pc EXCEPT ![p] = "drain"]
    /\ UNCHANGED <<expected_worker_count, poisoned, cond_waiters, work_counts,
                   proc_handles, run_vars, queue, inbox, neighbors, running,
                   coro_vars>>

ProcWaitInc(p) ==
    /\ pc[p] = "pw_inc"
    /\ lock_owner' = NoThread
    /\ \E checks \in OverflowChecks :
           IF checks /\ starving = UsizeMax
           THEN /\ poisoned' = TRUE
                /\ pc' = [pc EXCEPT ![p] = "panicked"]
                /\ UNCHANGED starving
           ELSE /\ starving' = AddOne(starving)
                /\ pc' = [pc EXCEPT ![p] = "drain"]
                /\ UNCHANGED poisoned
    /\ UNCHANGED <<expected_worker_count, cond_waiters, work_counts,
                   proc_handles, run_vars, queue, inbox, neighbors, running,
                   coro_vars>>

\* --------------------------------------- coroutine-side calls (on processor p)
\* The coroutine in p's running slot executes its body; the programs explored
\* are all sequences of spawn, sched, block, ready, join, return and panic.
Current(p) == running[p]
\* coroutine c has re-pushed itself in suspend_yield and the processor it
\* yields on has not yet swapped back to its scheduler context
Swapping(c) == \E r \in Procs : pc[r] = "sy_swap" /\ running[r] = c
\* a processor that took c from a queue in that window continues c at the
\* return of its sched() call, from the context that swap saves
InBody(p) ==
    /\ pc[p] = "run"
    /\ co_pc[running[p]] = "body"
    /\ recv_waiting[running[p]] = NoCoro
    /\ ~Swapping(running[p])
\* the running coroutine is the holder of d's JoinHandle and is either about
\* to call join on it or has been resumed inside that call
InRecv(p, d) ==
    /\ pc[p] = "run"
    /\ co_pc[running[p]] = "body"
    /\ spawner[d] = running[p]
    /\ recv_waiting[running[p]] \in {NoCoro, d}
    /\ ~Swapping(running[p])
\* the coroutines suspended in recv on the channel of coroutine c
Receivers(c) == {w \in parked : recv_waiting[w] = c}
Unborn == {c \in Coros : co_state[c] = "Unborn"}
Reserved == {c \in Coros : co_pc[c] = "sp_push"}
\* the coroutine a spawn_opts call creates: the next free identity
NextCoro == CHOOSE c \in Unborn : \A d \in Unborn : c <= d
\* the coroutine whose spawn_opts call c is executing (after the push)
SpawnChild(c) ==
    CHOOSE d \in Coros : spawner[d] = c /\ \A e \in Coros : spawner[e] = c => e <= d

\* ---------------------------------------------- Scheduler::spawn_opts
\* line 141: work_counts.fetch_add(1, SeqCst)
SpawnCount(p) ==
    /\ InBody(p)
    /\ Cardinality(Unborn) > Cardinality(Reserved)
    /\ work_counts' = FetchAdd(work_counts)
    /\ co_pc' = [co_pc EXCEPT ![Current(p)] = "sp_push"]
    /\ UNCHANGED <<expected_worker_count, poisoned, starving, lock_owner,
                   cond_waiters, proc_handles, run_vars, proc_vars, co_state,
                   spawner, ret, chan, sender_alive, join_results,
                   recv_waiting, resumed, parked>>

\* lines 143-150: the channel and the wrapper are created and
\* Processor::current().spawn_opts pushes the new coroutine on p's queue
SpawnPushBad(p) ==
    /\ pc[p] = "run"
    /\ co_pc[Current(p)] = "sp_push"
    /\ co_state' = [co_state EXCEPT ![NextCoro] = "Runnable"]
    /\ sender_alive' = [sender_alive EXCEPT ![NextCoro] = TRUE]
    /\ spawner' = [spawner EXCEPT ![NextCoro] = Current(p)]
    /\ co_pc' = [co_pc EXCEPT ![Current(p)] = "sp_lock"]
    /\ UNCHANGED <<sched_vars, run_vars, pc, queue, inbox, neighbors, running,
                   ret, chan, join_results, recv_waiting, resumed, parked>>

SpawnPush(p) ==
    /\ pc[p] = "run"
    /\ co_pc[Current(p)] = "sp_push"
    /\ co_state' = [co_state EXCEPT ![NextCoro] = "Runnable"]
    /\ sender_alive' = [sender_alive EXCEPT ![NextCoro] = TRUE]
    /\ spawner' = [spawner EXCEPT ![NextCoro] = Current(p)]
    /\ queue' = [queue EXCEPT ![p] = Push(@, NextCoro)]
    /\ co_pc' = [co_pc EXCEPT ![Current(p)] = "sp_lock"]
    /\ UNCHANGED <<sched_vars, run_vars, pc, inbox, neighbors, running, ret,
                   chan, join_results, recv_waiting, resumed, parked>>

\* line 154: cond.notify_one() wakes one waiter, if there is one;
\* line 156: the JoinHandle is returned
SpawnNotify(p) ==
    /\ pc[p] = "run"
    /\ co_pc[Current(p)] = "sp_notify"
    /\ \/ /\ cond_waiters = {}
          /\ UNCHANGED cond_waiters
       \/ \E w \in cond_waiters : cond_waiters' = cond_waiters \ {w}
    /\ co_pc' = [co_pc EXCEPT ![Current(p)] = "body"]
    /\ UNCHANGED <<expected_worker_count, poisoned, starving, lock_owner,
                   work_counts, proc_handles, run_vars, proc_vars, co_state,
                   spawner, ret, chan, sender_alive, join_results,
                   recv_waiting, resumed, parked>>

\* ------------------------------------------------------ Scheduler::sched
\* lines 219-221: Processor::current().sched(), the coroutine-side
\* suspend_yield: the coroutine marks itself Runnable and pushes itself back
\* on the hot end of the local queue, where pop and steal can take it, while
\* it still occupies the processor's running slot
SchedBad(p) ==
    /\ InBody(p)
    /\ co_state' = [co_state EXCEPT ![Current(p)] = "Runnable"]
    /\ queue' = [queue EXCEPT ![p] = <<Current(p)>> \o @]
    /\ pc' = [pc EXCEPT ![p] = "sy_swap"]
    /\ UNCHANGED <<sched_vars, run_vars, inbox, neighbors, running, co_pc,
                   spawner, ret, chan, sender_alive, join_results,
                   recv_waiting, resumed, parked>>

Sched(p) ==
    /\ InBody(p)
    /\ co_state' = [co_state EXCEPT ![Current(p)] = "Runnable"]
    /\ queue' = [queue EXCEPT ![p] = Push(@, Current(p))]
    /\ pc' = [pc EXCEPT ![p] = "sy_swap"]
    /\ UNCHANGED <<sched_vars, run_vars, inbox, neighbors, running, co_pc,
                   spawner, ret, chan, sender_alive, join_results,
                   recv_waiting, resumed, parked>>

\* the last part of suspend_yield: the swap back to the scheduler context;
\* the processor gives up its running slot and returns to its loop head
SchedSwap(p) ==
    /\ pc[p] = "sy_swap"
    /\ running' = [running EXCEPT ![p] = NoCoro]
    /\ pc' = [pc EXCEPT ![p] = "drain"]
    /\ UNCHANGED <<sched_vars, run_vars, queue, inbox, neighbors, coro_vars>>

\* ------------------------------------------------------ Scheduler::block
\* the coroutine becomes Parked and is not enqueued: an external parker
\* holds it until it calls ready
Block(p) ==
    /\ InBody(p)
    /\ co_state' = [co_state EXCEPT ![Current(p)] = "Parked"]
    /\ parked' = parked \cup {Current(p)}
    /\ running' = [running EXCEPT ![p] = NoCoro]
    /\ pc' = [pc EXCEPT ![p] = "drain"]
    /\ UNCHANGED <<sched_vars, run_vars, queue, inbox, neighbors, co_pc,
                   spawner, ret, chan, sender_alive, join_results,
                   recv_waiting, resumed>>

\* ------------------------------------------------------ Scheduler::ready
\* lines 92-94: Processor::current().ready(coro): the parker hands the
\* coroutine over to the current processor's queue.  ready is an unsafe fn
\* that checks nothing about the pointer it forwards: its caller owes it a
\* coroutine that is parked and that no one else readies, and only such
\* calls are explored here.
Ready(p, d) ==
    /\ InBody(p)
    /\ d \in parked
    /\ recv_waiting[d] = NoCoro
    /\ co_state' = [co_state EXCEPT ![d] = "Runnable"]
    /\ queue' = [queue EXCEPT ![p] = Push(@, d)]
    /\ parked' = parked \ {d}
    /\ UNCHANGED <<sched_vars, run_vars, pc, inbox, neighbors, running, co_pc,
                   spawner, ret, chan, sender_alive, join_results,
                   recv_waiting, resumed>>

\* a send on the channel of the running coroutine readies the receiver
\* suspended on it, on the sender's processor
WakeReceivers(p) ==
    /\ co_state' = [c \in Coros |->
                       IF c = Current(p) THEN "Finished"
                       ELSE IF c \in Receivers(Current(p)) THEN "Runnable"
                       ELSE co_state[c]]
    /\ parked' = parked \ Receivers(Current(p))
    /\ queue' = [queue EXCEPT ![p] =
                     IF Receivers(Current(p)) = {} THEN @
                     ELSE Push(@, spawner[Current(p)])]

CompleteNoSend(p, o) ==
    /\ ret' = [ret EXCEPT ![Current(p)] = o]
    /\ sender_alive' = [sender_alive EXCEPT ![Current(p)] = FALSE]
    /\ recv_waiting' = [recv_waiting EXCEPT ![Current(p)] = NoCoro]
    /\ co_state' = [co_state EXCEPT ![Current(p)] = "Finished"]
    /\ co_pc' = [co_pc EXCEPT ![Current(p)] = "body"]
    /\ pc' = [pc EXCEPT ![p] = "finish"]
    /\ UNCHANGED <<sched_vars, run_vars, queue, inbox, neighbors, running,
                   spawner, join_results, parked, chan, resumed>>

\* ------------------------------------- the wrapper closure of spawn_opts
\* lines 144-149: ret = try(f()); tx.send(ret); the wrapper ends, tx is
\* dropped and the coroutine is Finished.  Every call the closure was in is
\* over: it returned, or it was unwound by the panic that try caught.
Complete(p, o) ==
    /\ ret' = [ret EXCEPT ![Current(p)] = o]
    /\ chan' = [chan EXCEPT ![Current(p)] = Append(@, Try(o))]
    /\ sender_alive' = [sender_alive EXCEPT ![Current(p)] = FALSE]
    /\ recv_waiting' = [recv_waiting EXCEPT ![Current(p)] = NoCoro]
    /\ WakeReceivers(p)
    /\ co_pc' = [co_pc EXCEPT ![Current(p)] = "body"]
    /\ pc' = [pc EXCEPT ![p] = "finish"]
    /\ UNCHANGED <<sched_vars, run_vars, inbox, neighbors, running, spawner,
                   join_results, resumed>>

\* the closure returns its value
Return(p) ==
    /\ InBody(p)
    /\ Complete(p, Returned(Current(p)))

\* the closure panics
Panic(p) ==
    /\ InBody(p)
    /\ Complete(p, Panicked(Current(p)))

\* ---------------------------------------------- Scheduler::spawn_opts
\* line 153: let _ = lock.lock().unwrap();  lock, then unlock at once; on a
\* poisoned mutex unwrap panics inside the calling coroutine's closure,
\* which unwinds out of spawn_opts
SpawnLockUnlock(p) ==
    /\ pc[p] = "run"
    /\ co_pc[Current(p)] = "sp_lock"
    /\ lock_owner = NoThread
    /\ IF poisoned
       THEN Complete(p, Panicked(Current(p)))
       ELSE /\ co_pc' = [co_pc EXCEPT ![Current(p)] = "sp_notify"]
            /\ UNCHANGED <<sched_vars, run_vars, proc_vars, co_state, spawner,
                           ret, chan, sender_alive, join_results,
                           recv_waiting, resumed, parked>>

\* ------------------------------------------------------ JoinHandle::join
\* lines 46-48: self.result.recv().expect(..)
\* a result is in the channel: join returns it
JoinRecv(p, d) ==
    /\ InRecv(p, d)
    /\ chan[d] /= <<>>
    /\ join_results' = [join_results EXCEPT ![d] = Append(@, Head(chan[d]))]
    /\ chan' = [chan EXCEPT ![d] = Tail(@)]
    /\ recv_waiting' = [recv_waiting EXCEPT ![Current(p)] = NoCoro]
    /\ UNCHANGED <<sched_vars, run_vars, proc_vars, co_state, co_pc, spawner,
                   ret, sender_alive, parked, resumed>>

\* the channel is empty and its sender is gone: recv fails, expect panics
\* inside the joining coroutine
JoinDisconnected(p, d) ==
    /\ InRecv(p, d)
    /\ chan[d] = <<>>
    /\ ~sender_alive[d]
    /\ Complete(p, Panicked(Current(p)))

\* the channel is empty and its sender alive: recv parks the joining
\* coroutine on the channel, which readies it when a value is sent
JoinWait(p, d) ==
    /\ InRecv(p, d)
    /\ chan[d] = <<>>
    /\ sender_alive[d]
    /\ recv_waiting' = [recv_waiting EXCEPT ![Current(p)] = d]
    /\ co_state' = [co_state EXCEPT ![Current(p)] = "Parked"]
    /\ parked' = parked \cup {Current(p)}
    /\ running' = [running EXCEPT ![p] = NoCoro]
    /\ pc' = [pc EXCEPT ![p] = "drain"]
    /\ UNCHANGED <<sched_vars, run_vars, queue, inbox, neighbors, co_pc,
                   spawner, ret, chan, sender_alive, join_results, resumed>>

\* --------------------------------------------------- Scheduler::finished
\* lines 115-118: work_counts.fetch_sub(1); the coroutine is destroyed
Finished(p) ==
    /\ pc[p] = "finish"
    /\ work_counts' = FetchSub(work_counts)
    /\ co_state' = [co_state EXCEPT ![Current(p)] = "Destroyed"]
    /\ running' = [running EXCEPT ![p] = NoCoro]
    /\ pc' = [pc EXCEPT ![p] = "drain"]
    /\ UNCHANGED <<expected_worker_count, poisoned, starving, lock_owner,
                   cond_waiters, proc_handles, run_vars, queue, inbox,
                   neighbors, co_pc, spawner, ret, chan, sender_alive,
                   join_results, recv_waiting, resumed, parked>>

\* ---------------------------------------------------------- specification
WorkerStep(p) ==
    \/ Drain(p) \/ ProcExit(p) \/ PopLocal(p) \/ PopEmpty(p)
    \/ \E v \in Procs : Steal(p, v)
    \/ StealNone(p)
    \/ ProcWaitLock(p) \/ ProcWaitPark(p) \/ ProcWaitSkip(p)
    \/ ProcWaitWake(p) \/ ProcWaitInc(p)
    \/ SpawnCount(p) \/ SpawnPush(p) \/ SpawnLockUnlock(p) \/ SpawnNotify(p)
    \/ Sched(p) \/ SchedSwap(p) \/ Block(p)
    \/ \E d \in Coros : Ready(p, d)
    \/ Return(p) \/ Panic(p)
    \/ \E d \in Coros : JoinRecv(p, d) \/ JoinDisconnected(p, d) \/ JoinWait(p, d)
    \/ Finished(p)

Next ==
    \/ RunThread
    \/ \E p \in Procs : WorkerStep(p)
    \/ \E p \in Procs : SpuriousWake(p)

Spec == Init /\ [][Next]_vars

\* The most favourable scheduler: a thread that can take a step again and
\* again (also one contending for the starving mutex) eventually takes one.
\* std::sync::Mutex promises no such fairness; a behaviour that goes wrong
\* under this scheduler goes wrong under every weaker one, and it is used to
\* refute progress, never to establish it.  A spurious wakeup is never
\* promised.
FairSpec ==
    /\ Init /\ [][Next]_vars
    /\ SF_vars(RunThread)
    /\ \A p \in Procs : SF_vars(WorkerStep(p))

\* The least that every scheduler gives: the thread executing run takes its
\* next step if that step stays possible for ever.  Nothing is assumed about
\* who wins a contended mutex, nor about the worker threads.
RunFairSpec ==
    /\ Init /\ [][Next]_vars
    /\ WF_vars(RunThread)

\* ------------------------------------------------------------ properties
Ok(v) == [tag |-> "Ok", val |-> v]
Err(v) == [tag |-> "Err", val |-> v]
Spawned == Coros \ {MainCoro}
ProcWaitPcs == {"pw_lock", "pw_check", "pw_wait", "pw_inc"}
MainDone == ret[MainCoro] /= <<>>
RunReturned == run_pc = "returned"
Occurrences(q, c) == Cardinality({i \in 1 .. Len(q) : q[i] = c})
QueueHolders(c) == {p \in Procs : Occurrences(queue[p], c) > 0}
RunningHolders(c) == {p \in Procs : running[p] = c}
\* the number of references to c held by queues, running slots and parkers
HolderCount(c) ==
    LET F[S \in SUBSET Procs] ==
            IF S = {} THEN 0
            ELSE LET p == CHOOSE x \in S : TRUE
                 IN Occurrences(queue[p], c) + F[S \ {p}]
    IN F[Procs] + Cardinality(RunningHolders(c))
       + (IF c \in parked THEN 1 ELSE 0)
\* c sits in a run queue and the spawn_opts call that created it has already
\* issued its notify_one
Queued(c) == QueueHolders(c) /= {}
SpawnNotified(c) ==
    /\ spawner[c] /= NoCoro
    /\ ~(co_pc[spawner[c]] \in {"sp_lock", "sp_notify"}
         /\ SpawnChild(spawner[c]) = c)

\* C1: once the main coroutine has returned or panicked, Scheduler::run
\* eventually returns, for every worker count.
C1_RunEventuallyReturns == MainDone ~> RunReturned

\* C2: no lost wakeup: a processor never goes to sleep on the starving
\* condvar while a coroutine whose spawn has already called notify_one is
\* waiting in a run queue.
C2_NoLostWakeup ==
    [][\A p \in Procs :
          (pc[p] = "pw_check" /\ pc'[p] = "pw_wait")
              => ~(\E c \in Coros : Queued(c) /\ SpawnNotified(c))]_vars

\* C3: no processor sleeps through shutdown: notify_all is issued only after
\* every worker was sent Shutdown, and a processor that is in proc_wait, or
\* on its way to it with its inbox already drained, once notify_all has been
\* issued eventually exits its scheduling loop.
C3_NoSleepThroughShutdown ==
    /\ [](run_pc \in {"notify_all", "join", "returned", "panicked_join"}
            => \A w \in Workers : pc[w] \in {"exit", "exited"}
                                   \/ HasShutdown(inbox[w]))
    /\ \A p \in Procs :
          (run_pc = "join" /\ pc[p] \in ProcWaitPcs \cup {"pop", "steal"})
              ~> pc[p] = "exited"

\* C4: a spawned coroutine whose closure returned v has exactly one message
\* on its result channel, Ok(v); join on its handle returns Ok(v) and the
\* handle yields no second result.  Nothing is sent before the closure ends.
C4_JoinYieldsOkOnce ==
    \A c \in Spawned :
        /\ ret[c] = <<>> => (chan[c] = <<>> /\ join_results[c] = <<>>)
        /\ (ret[c] /= <<>> /\ ret[c].kind = "return") =>
              /\ Len(chan[c]) + Len(join_results[c]) = 1
              /\ \A i \in 1 .. Len(chan[c]) : chan[c][i] = Ok(ret[c].val)
              /\ \A i \in 1 .. Len(join_results[c]) :
                     join_results[c][i] = Ok(ret[c].val)

\* C4 witness: a join has returned Ok(v) for a coroutine that returned v, and
\* the joiner, calling join again on the closed channel, got no second result.
C4_Witness ==
    \E c \in Spawned :
        /\ ret[c] = Returned(c)
        /\ join_results[c] = <<Ok(c)>>
        /\ chan[c] = <<>>
        /\ ret[spawner[c]] = Panicked(spawner[c])

\* C5: a spawned coroutine whose closure panicked with payload p has exactly
\* one message on its result channel, Err(p), which is all its join handle
\* yields; the step in which it panics changes nothing but its own record and
\* leaves its processor where a normal return leaves it.
C5_PanicInv ==
    \A c \in Spawned :
        (ret[c] /= <<>> /\ ret[c].kind = "panic") =>
            /\ Len(chan[c]) + Len(join_results[c]) = 1
            /\ \A i \in 1 .. Len(chan[c]) : chan[c][i] = Err(ret[c].val)
            /\ \A i \in 1 .. Len(join_results[c]) :
                   join_results[c][i] = Err(ret[c].val)

C5_PanicStep ==
    \A p \in Procs : \A c \in Spawned :
        (running[p] = c /\ ret[c] = <<>> /\ ret'[c] /= <<>>
           /\ ret'[c].kind = "panic") =>
            /\ UNCHANGED <<sched_vars, run_vars, inbox, neighbors, running,
                           co_pc, spawner, join_results>>
            /\ pc' = [pc EXCEPT ![p] = "finish"]
            /\ co_state'[c] = "Finished"
            /\ \A d \in Coros \ {c} :
                   co_state'[d] = IF d \in Receivers(c) THEN "Runnable"
                                  ELSE co_state[d]
            /\ parked' = parked \ Receivers(c)
            /\ \A q \in Procs \ {p} : queue'[q] = queue[q]
            /\ queue'[p] = IF Receivers(c) = {} THEN queue[p]
                           ELSE Push(queue[p], spawner[c])
            /\ sender_alive' = [sender_alive EXCEPT ![c] = FALSE]
            /\ \A d \in Coros \ {c} : ret'[d] = ret[d] /\ chan'[d] = chan[d]

C5_PanicIsolated == []C5_PanicInv /\ [][C5_PanicStep]_vars

\* C5 witness: coroutine c panicked, its spawner got Err(payload) from join,
\* and that spawner is now in the middle of a later spawn.
C5_Witness ==
    \E c \in Spawned : \E d \in Spawned :
        /\ ret[c] = Panicked(c)
        /\ join_results[c] = <<Err(c)>>
        /\ d /= c
        /\ spawner[d] = spawner[c]
        /\ co_state[d] = "Runnable"
        /\ co_pc[spawner[c]] = "sp_lock"
        /\ SpawnChild(spawner[c]) = d

\* C6: when run has returned, its value is the outcome of the main coroutine
\* (Ok(r) for a return, Err(payload) for a panic), and in both cases every
\* worker was sent Shutdown, notify_all was issued and every worker joined.
C6_RunReturnsMainOutcome ==
    RunReturned =>
        /\ MainDone
        /\ run_ret = <<Try(ret[MainCoro])>>
        /\ ret[MainCoro].kind = "return" => run_ret = <<Ok(MainCoro)>>
        /\ ret[MainCoro].kind = "panic" => run_ret = <<Err(MainCoro)>>
        /\ run_i > Len(handles)
        /\ Len(handles) = expected_worker_count
        /\ \A w \in Workers : pc[w] = "exited" /\ inbox[w] = <<>>
        /\ cond_waiters = {}

\* C6 witness: run has returned the panic of the main coroutine with more
\* than one worker.
C6_Witness ==
    /\ RunReturned
    /\ run_ret = <<Err(MainCoro)>>
    /\ expected_worker_count > 1

\* C7: every coroutine has at most one holder among the run queues, the
\* running slots and the external parkers: it is in the running slot of at
\* most one processor, a queued coroutine is handed out at most once, and a
\* destroyed coroutine has no holder left.
C7_SingleHolder ==
    \A c \in Coros :
        /\ HolderCount(c) <= 1
        /\ Cardinality(RunningHolders(c)) <= 1
        /\ co_state[c] = "Destroyed" => HolderCount(c) = 0

\* C8: after run has returned Ok the work counter is zero.
C8_WorkCountZeroAfterRun ==
    (RunReturned /\ run_ret = <<Ok(MainCoro)>>) => work_counts = UsizeZero

\* C9: when run returns every worker thread it started has terminated, all
\* expected_worker_count of them, and the main coroutine's outcome was sent.
C9_NoWorkerOutlivesRun ==
    RunReturned =>
        /\ \A w \in Workers : pc[w] = "exited"
        /\ \A p \in Procs \ Workers : pc[p] = "not_started"
        /\ SeqToSet(handles) = Workers
        /\ MainDone

\* C9 witness: run has returned with two or more workers.
C9_Witness == RunReturned /\ expected_worker_count > 1

\* C10: the starving counter stays within 0..expected_worker_count.
C10_CounterInRange ==
    starving \in {SmallUsize(n) : n \in 0 .. expected_worker_count}

\* C10 witness: with several workers, one is parked and another has brought
\* the counter down to zero.
C10_Witness ==
    /\ expected_worker_count > 1
    /\ cond_waiters /= {}
    /\ starving = UsizeZero

\* ---------------------------------------------------------------- C11
\* processors blocked in cond.wait (or woken and waiting to re-take the lock)
InCondWait == {p \in Procs : pc[p] = "pw_wait"}
\* processors whose thread runs (started, neither exited nor ended by a
\* panic) and is not parked in proc_wait
Awake ==
    {p \in Procs :
        pc[p] \notin {"not_started", "pw_wait", "exited", "panicked"}}
\* the value run has last stored in the counter (lines 167 and 179); a
\* statement of run that panicked stored nothing
StoredByRun ==
    IF run_pc \in {"set_one", "panicked_set_one"} THEN 0
    ELSE IF run_pc \in {"start_main", "set_n", "panicked_set_n"} THEN 1
    ELSE expected_worker_count

\* C11 as stated: whenever the starving lock is not held, the counter equals
\* the number of awake processors (started, not parked, not exited), also
\* during startup and during shutdown.
C11_CounterIsAwakeCount ==
    lock_owner = NoThread => starving = SmallUsize(Cardinality(Awake))

\* C11 amended: whenever the starving lock is not held, the counter equals
\* the value run last stored in it (1 before line 179, N after) minus the
\* number of processors parked in proc_wait; workers not yet started and
\* workers that have exited stay counted.
C11_CounterIsStoredMinusParked ==
    lock_owner = NoThread =>
        starving = SmallUsize(StoredByRun - Cardinality(InCondWait))

\* C11 witness: the lock is free, one worker is parked in proc_wait and
\* another has exited, so one processor is parked, none is awake and the
\* counter is 1.
C11_Witness ==
    /\ lock_owner = NoThread
    /\ expected_worker_count = 2
    /\ \E p \in Workers : \E q \in Workers :
           pc[p] = "pw_wait" /\ pc[q] = "exited"
    /\ Awake = {}
    /\ starving = SmallUsize(1)

\* ---------------------------------------------------------------- C12
\* processor p moves from position a of proc_wait to another position
Leaves(p, a) == pc[p] = a /\ pc'[p] /= a

\* C12 as stated: after the decrement proc_wait parks on the condition
\* variable in every case, also when the decremented value is zero, and it
\* reaches the increment only after having been woken from that wait.
C12_AlwaysParksStep ==
    \A p \in Procs :
        /\ Leaves(p, "pw_check") => pc'[p] = "pw_wait"
        /\ (pc[p] /= "pw_inc" /\ pc'[p] = "pw_inc") =>
               (pc[p] = "pw_wait" /\ p \notin cond_waiters)

C12_AlwaysParks == [][C12_AlwaysParksStep]_vars

\* C12 amended: proc_wait decrements the counter under the starving lock;
\* it parks on the condition variable (releasing the lock) only when the
\* decremented value is not zero, and when it is zero it skips the wait and
\* keeps the lock; a parked caller goes on only after being woken and
\* re-taking the lock; in both cases it then increments the counter,
\* releases the lock and returns.
C12_ParksUnlessZeroStep ==
    \A p \in Procs :
        /\ Leaves(p, "pw_lock") =>
               /\ pc'[p] = "pw_check"
               /\ lock_owner = NoThread /\ lock_owner' = p
               /\ starving' = SubOne(starving)
        /\ Leaves(p, "pw_check") =>
               /\ lock_owner = p
               /\ starving' = starving
               /\ IF starving /= UsizeZero
                  THEN /\ pc'[p] = "pw_wait"
                       /\ p \in cond_waiters'
                       /\ lock_owner' = NoThread
                  ELSE /\ pc'[p] = "pw_inc"
                       /\ lock_owner' = p
                       /\ cond_waiters' = cond_waiters
        /\ Leaves(p, "pw_wait") =>
               /\ pc'[p] = "pw_inc"
               /\ p \notin cond_waiters
               /\ lock_owner = NoThread /\ lock_owner' = p
               /\ starving' = starving
        /\ Leaves(p, "pw_inc") =>
               /\ pc'[p] = "drain"
               /\ lock_owner = p /\ lock_owner' = NoThread
               /\ starving' = AddOne(starving)

C12_ParksUnlessZero == [][C12_ParksUnlessZeroStep]_vars

\* C12 witness: the only worker decremented the counter to zero and stands at
\* the increment with the lock still held, without ever having waited.
C12_Witness ==
    /\ expected_worker_count = 1
    /\ pc[0] = "pw_inc"
    /\ lock_owner = 0
    /\ starving = UsizeZero
    /\ cond_waiters = {}

\* ---------------------------------------------------------------- C13
\* worker i's thread was started and is not at the head of its schedule loop
InLoop(i) == pc[i] \notin {"not_started", "drain"}
\* the NewNeighbor message carrying i's stealer is in j's inbox, not yet read
NeighborPending(j, i) == NewNeighbor(i) \in SeqToSet(inbox[j])
\* run is inside the iteration that starts worker i and has not yet sent
\* worker i's stealer to worker j
NeighborUnsent(j, i) ==
    run_pc = "send_neighbor" /\ run_i = i /\ run_j <= j + 1

\* C13 as stated: once worker i (1 <= i < N) executes its schedule loop,
\* every worker 0..i-1 has i's stealer in its neighbor list and worker i has
\* the stealers of all workers 0..i-1.
C13_NeighborsKnownAtStart ==
    \A i \in Workers \ {0} : InLoop(i) =>
        \A j \in 0 .. (i - 1) : i \in neighbors[j] /\ j \in neighbors[i]

\* C13 amended: a started worker i (1 <= i < N) was seeded with the stealers
\* of all workers 0..i-1, and its own stealer is sent to each worker 0..i-1
\* only after worker i's thread was started: for each j < i, worker j has
\* i's stealer in its neighbor list, or the NewNeighbor message is still in
\* j's inbox, or run has not sent it yet.
C13_NeighborsSeededThenSent ==
    \A i \in Workers \ {0} : pc[i] /= "not_started" =>
        \A j \in 0 .. (i - 1) :
            /\ j \in neighbors[i]
            /\ \/ i \in neighbors[j]
               \/ NeighborPending(j, i)
               \/ NeighborUnsent(j, i)

\* C13 witness: worker 1 is past the head of its loop and looks for work
\* while run has not yet sent its stealer to worker 0.
C13_Witness ==
    /\ InLoop(1)
    /\ 0 \in neighbors[1]
    /\ 1 \notin neighbors[0]
    /\ ~NeighborPending(0, 1)
    /\ NeighborUnsent(0, 1)

\* ---------------------------------------------------------------- C14
\* the coroutines c has spawned so far
Children(c) == {d \in Coros : spawner[d] = c}
\* c's spawn_opts call has pushed its coroutine and not yet returned
AfterPush(c) == co_pc[c] \in {"sp_lock", "sp_notify"}
\* d was popped or stolen from the queue it had been pushed on
Taken(d) ==
    co_state[d] \in {"Running", "Parked", "Finished", "Destroyed", "Dropped"}

\* the positions of spawn_opts follow one another in the order of the code:
\* fetch_add, push, lock/unlock, notify_one
C14_OrderStep ==
    \A c \in Coros :
        /\ co_pc'[c] /= co_pc[c] =>
               <<co_pc[c], co_pc'[c]>> \in
                   {<<"body", "sp_push">>, <<"sp_push", "sp_lock">>,
                    <<"sp_lock", "sp_notify">>, <<"sp_notify", "body">>}
        /\ (co_pc[c] = "body" /\ co_pc'[c] = "sp_push") =>
               /\ work_counts' = FetchAdd(work_counts)
               /\ Children(c) = {d \in Coros : spawner'[d] = c}
        /\ (co_pc[c] = "sp_push" /\ co_pc'[c] = "sp_lock") =>
               /\ work_counts' = work_counts
               /\ cond_waiters' = cond_waiters
               /\ \E p \in Procs : \E d \in Unborn :
                      /\ running[p] = c
                      /\ spawner'[d] = c
                      /\ co_state'[d] = "Runnable"
                      /\ queue'[p] = Push(queue[p], d)
        /\ (co_pc[c] = "sp_notify" /\ co_pc'[c] = "body") =>
               /\ cond_waiters' \subseteq cond_waiters
               /\ Cardinality(cond_waiters \ cond_waiters') <= 1
               /\ cond_waiters /= {} => cond_waiters' /= cond_waiters

\* in every state between the push and the return of a spawn_opts call, the
\* coroutine that call created is in a queue or has been taken from one
C14_PublishedInv ==
    \A c \in Coros : AfterPush(c) =>
        \E d \in Children(c) :
            /\ \A e \in Children(c) : e <= d
            /\ Queued(d) \/ Taken(d)

\* C14: in spawn_opts the work counter is incremented first, then the new
\* coroutine is pushed on the current processor's queue, and notify_one is
\* called only after that push: whenever a spawn is about to notify, the
\* coroutine it spawned is in a queue or has already been taken from it.
C14_PushBeforeNotify == []C14_PublishedInv /\ [][C14_OrderStep]_vars

\* C14 witness: a spawn is about to call notify_one while the coroutine it
\* pushed has already been stolen and is running on another processor.
C14_Witness ==
    \E c \in Coros : \E d \in Children(c) : \E p \in Procs : \E q \in Procs :
        /\ co_pc[c] = "sp_notify"
        /\ running[p] = c
        /\ q /= p
        /\ running[q] = d
        /\ co_state[d] = "Running"

\* ---------------------------------------------------------------- C15
\* the Shutdown broadcast of lines 201-203 is complete: run is at line 206
\* or beyond, also when it panicked there (206) or in a join (210)
BroadcastDone ==
    run_pc \in {"lock", "notify_all", "join", "returned", "panicked_lock",
                "panicked_join"}
\* spawned coroutines that exist and have not finished
LiveSpawned ==
    {d \in Spawned : co_state[d] \in {"Runnable", "Running", "Parked"}}
\* run stands at the recv of line 200 and the main outcome is in the channel
OutcomeAtHand == run_pc = "recv_main" /\ chan[MainCoro] /= <<>>
\* run is blocked in hdl.join() of line 210 on worker w, whose thread has
\* not ended
JoinWaitsFor(w) ==
    /\ run_pc = "join"
    /\ run_i <= Len(handles)
    /\ handles[run_i] = w
    /\ ~Joined(w) /\ ~Unwound(w)
\* worker w is executing a spawned coroutine that has not finished
RunsLive(w) == pc[w] = "run" /\ running[w] \in LiveSpawned

\* run receives the main outcome without looking at anything else, never
\* writes the work counter, and passes a join only when that worker's
\* thread has ended; it returns only after all of them
C15_RunStep ==
    /\ run_pc' /= run_pc => work_counts' = work_counts
    /\ (run_pc = "recv_main" /\ run_pc' /= run_pc) =>
           /\ chan[MainCoro] /= <<>>
           /\ main_ret' = <<Head(chan[MainCoro])>>
           /\ run_pc' = "shutdown"
    /\ (run_pc = "join" /\ run_i' = run_i + 1) =>
           pc[handles[run_i]] = "exited"
    /\ (run_pc = "join" /\ run_pc' = "returned") =>
           \A w \in Workers : pc[w] = "exited"

\* a worker reads Shutdown at the head of its loop only; there it leaves the
\* loop whatever its queue holds and drops the coroutines left in it; a
\* worker that is executing a coroutine comes back to the head of its loop
\* only when that coroutine suspends or finishes
C15_WorkerStep ==
    \A w \in Procs :
        /\ (pc[w] /= "exit" /\ pc'[w] = "exit") =>
               pc[w] = "drain" /\ HasShutdown(inbox[w])
        /\ (Leaves(w, "drain") /\ HasShutdown(inbox[w])) => pc'[w] = "exit"
        /\ Leaves(w, "exit") =>
               /\ pc'[w] = "exited"
               /\ \A c \in SeqToSet(queue[w]) : co_state'[c] = "Dropped"
        /\ Leaves(w, "run") =>
               /\ pc'[w] \in {"sy_swap", "drain", "finish"}
               /\ co_state'[running[w]] \in {"Runnable", "Parked", "Finished"}

\* the trigger: once run stands at line 200 with the main outcome in the
\* channel it completes the broadcast, whatever the workers, the work
\* counter and the other coroutines do
C15_Trigger ==
    /\ [][C15_RunStep]_vars
    /\ OutcomeAtHand ~> BroadcastDone

\* run's join never waits for a worker that is executing a live coroutine
C15_NoJoinDelayInv == \A w \in Procs : JoinWaitsFor(w) => ~RunsLive(w)

\* C15 as stated: run's shutdown is triggered by the main coroutine's
\* outcome alone: run broadcasts Shutdown as soon as it has received the
\* main outcome, also when the work counter is greater than zero, it never
\* waits for the work counter, and the coroutines still live at that point
\* do not delay or prevent run's return.
C15_LiveNeverDelayReturn == C15_Trigger /\ []C15_NoJoinDelayInv

\* C15 amended: run's shutdown is triggered by the main coroutine's outcome
\* alone: once run has the main outcome it broadcasts Shutdown, also when
\* the work counter is greater than zero, and it never reads or writes the
\* work counter.  The coroutines still live at that point that lie in a run
\* queue are dropped by the worker that reads Shutdown at the head of its
\* loop; a coroutine that a worker is executing keeps that worker from the
\* head of its loop until it suspends or finishes, and run's join of that
\* worker, and so run's return, wait for it.
C15_ShutdownOnMainOutcomeAlone == C15_Trigger /\ [][C15_WorkerStep]_vars

\* C15 witness: the broadcast is complete with the work counter above zero,
\* and run's join waits for a worker that has Shutdown in its inbox and is
\* executing a live spawned coroutine.
C15_Witness ==
    /\ work_counts /= UsizeZero
    /\ \E w \in Workers :
           /\ JoinWaitsFor(w)
           /\ RunsLive(w)
           /\ HasShutdown(inbox[w])

\* ---------------------------------------------------------------- C16
\* coroutines created so far, the main coroutine included, plus the spawn
\* calls that have done their fetch_add and not yet created their coroutine
SpawnedSoFar ==
    Cardinality({c \in Coros : co_state[c] /= "Unborn"}) + Cardinality(Reserved)
\* coroutines that were passed to Scheduler::finished
FinishedSoFar == Cardinality({c \in Coros : co_state[c] = "Destroyed"})

\* C16: in every reachable state the work counter equals the number of
\* coroutines spawned minus the number finished, the main coroutine counted,
\* and the unsigned counter never wraps below zero.
C16_WorkCountIsSpawnedMinusFinished ==
    /\ SpawnedSoFar >= FinishedSoFar
    /\ work_counts = SmallUsize(SpawnedSoFar - FinishedSoFar)

\* ---------------------------------------------------------------- C17
\* the statements of run that take the starving lock (lines 167, 179, 206)
RunTakesStarving ==
    run_pc \in {"set_one", "set_n", "lock"} /\ run_pc' /= run_pc

C17_LeafLocksInv ==
    /\ lock_owner \in Procs \cup {NoThread}
    /\ proc_handles_guard \in {NoThread, RunThreadId}
    /\ ~(lock_owner /= NoThread /\ lock_owner = proc_handles_guard)
    /\ proc_handles_guard = RunThreadId =>
           run_pc \in {"send_neighbor", "shutdown"}
    /\ run_pc \in {"join", "returned", "panicked_join"} =>
           proc_handles_guard = NoThread

C17_LeafLocksStep ==
    /\ RunTakesStarving =>
           /\ proc_handles_guard = NoThread /\ proc_handles_guard' = NoThread
           /\ lock_owner = NoThread /\ lock_owner' = NoThread
    /\ proc_handles_guard' /= proc_handles_guard =>
           /\ lock_owner' = lock_owner
           /\ starving' = starving
           /\ co_pc' = co_pc
           /\ \A p \in Procs : pc[p] \in ProcWaitPcs => pc'[p] = pc[p]
    /\ \A c \in Coros :
           (co_pc[c] = "sp_lock" /\ co_pc'[c] = "sp_notify") =>
               lock_owner = NoThread /\ lock_owner' = NoThread

\* C17: no thread holds the starving lock and the proc_handles mutex at the
\* same time: run takes the starving lock only while it does not hold the
\* proc_handles guard, and lets it go in the same statement; the workers
\* (proc_wait, spawn_opts) take the starving lock only and never the
\* proc_handles mutex; and run holds neither lock while it joins the worker
\* threads.
C17_LeafLocks == []C17_LeafLocksInv /\ [][C17_LeafLocksStep]_vars

\* C17 witness: both locks are held at once, by different threads: a worker
\* inside proc_wait holds the starving lock while run, in its Shutdown loop,
\* holds the proc_handles guard.
C17_Witness ==
    /\ run_pc = "shutdown"
    /\ proc_handles_guard = RunThreadId
    /\ lock_owner \in Procs
    /\ pc[lock_owner] \in {"pw_check", "pw_inc"}

\* ---------------------------------------------------------------- C18
\* processor p takes its next coroutine from its own queue
PopsLocal(p) == pc[p] = "pop" /\ pc'[p] = "run"
\* a is the only coroutine that has run so far, it spawned b on processor p
\* and then yielded with sched(): b, never resumed and not stolen, lies in
\* p's queue and a lies right above it
YieldedAfterSpawn(p, a, b) ==
    /\ resumed = {a}
    /\ spawner[b] = a
    /\ co_state[a] = "Runnable" /\ co_state[b] = "Runnable"
    /\ Len(queue[p]) >= 2
    /\ queue[p][Len(queue[p])] = a
    /\ queue[p][Len(queue[p]) - 1] = b
\* a spawned b on processor p and then blocked in join on b's handle
JoinedAfterSpawn(p, a, b) ==
    /\ resumed = {a}
    /\ spawner[b] = a
    /\ recv_waiting[a] = b /\ a \in parked
    /\ queue[p] /= <<>>
    /\ queue[p][Len(queue[p])] = b

\* C18 as stated: if coroutine A spawns B on a processor and then yields
\* with sched(), and no steal occurs, B is the next coroutine that
\* processor runs.
C18_SpawnedRunsNextStep ==
    \A p \in Procs : \A a \in Coros : \A b \in Coros :
        (YieldedAfterSpawn(p, a, b) /\ PopsLocal(p)) => running'[p] = b

C18_SpawnedRunsNext == [][C18_SpawnedRunsNextStep]_vars

\* C18 amended: the owner pops the coroutine pushed last.  If A spawns B and
\* then yields with sched(), and no steal occurs, A was re-pushed above B and
\* A itself is the next coroutine that processor runs; B is the next one
\* when A blocks instead (as in join on B's handle).
C18_YielderRunsNextStep ==
    \A p \in Procs :
        /\ PopsLocal(p) =>
               /\ queue[p] /= <<>>
               /\ running'[p] = queue[p][Len(queue[p])]
               /\ queue'[p] = SubSeq(queue[p], 1, Len(queue[p]) - 1)
        /\ \A a \in Coros :
               (running[p] = a /\ co_state[a] = "Running"
                  /\ co_state'[a] = "Runnable") =>
                   queue'[p] = Append(queue[p], a)
        /\ \A a \in Coros : \A b \in Coros :
               /\ (YieldedAfterSpawn(p, a, b) /\ PopsLocal(p)) =>
                      running'[p] = a
               /\ (JoinedAfterSpawn(p, a, b) /\ PopsLocal(p)) =>
                      running'[p] = b

C18_YielderRunsNext == [][C18_YielderRunsNextStep]_vars

\* C18 witness: on the only processor the main coroutine spawned a
\* coroutine and yielded; the processor is about to pop, with the yielder
\* above the spawned coroutine.
C18_Witness ==
    /\ expected_worker_count = 1
    /\ pc[0] = "pop"
    /\ \E b \in Spawned :
           /\ YieldedAfterSpawn(0, MainCoro, b)
           /\ queue[0] = <<b, MainCoro>>
           /\ co_pc[MainCoro] = "body"

\* ---------------------------------------------------------------- C19
\* run has executed the store of line 179 (a panic of line 167 or 179 left
\* it unexecuted)
CounterSetToN ==
    run_pc \notin {"set_one", "start_main", "set_n", "panicked_set_one",
                   "panicked_set_n"}

C19_LastAwakeInv ==
    /\ CounterSetToN =>
           Cardinality(InCondWait) <= expected_worker_count - 1
    /\ (CounterSetToN /\ lock_owner = NoThread) =>
           starving \in {SmallUsize(n) : n \in 1 .. expected_worker_count}
    /\ expected_worker_count = 1 =>
           (InCondWait = {} /\ cond_waiters = {})

C19_LastAwakeStep ==
    \A p \in Procs :
        /\ (pc[p] = "pw_check" /\ starving = UsizeZero
              /\ pc'[p] /= "pw_check") =>
               /\ pc'[p] = "pw_inc"
               /\ starving' = UsizeZero
               /\ lock_owner' = p
        /\ (pc[p] = "pw_inc" /\ starving = UsizeZero
              /\ pc'[p] /= "pw_inc") =>
               /\ pc'[p] = "drain"
               /\ starving' = SmallUsize(1)
               /\ lock_owner' = NoThread

\* C19: once run has set the counter to N, at most N-1 processors are
\* blocked in the wait of proc_wait: the processor whose decrement brings
\* the counter to zero skips the wait, restores the counter to 1 and
\* returns; with N = 1 the only processor never parks, and the counter is at
\* least 1 whenever the starving lock is free.
C19_LastAwakeNeverParks == []C19_LastAwakeInv /\ [][C19_LastAwakeStep]_vars

\* C19 witness: with two workers, one is blocked in the wait and the other
\* has just decremented the counter to zero and skipped the wait.
C19_Witness ==
    /\ expected_worker_count = 2
    /\ CounterSetToN
    /\ \E p \in Workers : \E q \in Workers :
           /\ pc[p] = "pw_wait" /\ p \in cond_waiters
           /\ pc[q] = "pw_inc" /\ lock_owner = q
    /\ starving = UsizeZero

\* ---------------------------------------------------------------- C20
\* the number of Shutdown messages among msgs
ShutdownCount(msgs) ==
    Cardinality({i \in 1 .. Len(msgs) : msgs[i].type = "Shutdown"})
\* worker w has read a Shutdown message
ReadShutdown(w) == pc[w] \in {"exit", "exited"}
\* run is at or past line 200, the recv on the main coroutine's channel
\* (a panic of line 200 is at it, one of line 206 or 210 past it)
AtOrPastRecv ==
    run_pc \in {"recv_main", "shutdown", "lock", "notify_all", "join",
                "returned", "panicked_recv", "panicked_lock",
                "panicked_join"}
\* the workers the Shutdown loop has already sent to
ShutdownSentTo ==
    IF run_pc = "shutdown" THEN {proc_handles[i] : i \in 1 .. (run_i - 1)}
    ELSE IF BroadcastDone THEN SeqToSet(proc_handles)
    ELSE {}

C20_BroadcastInv ==
    /\ Len(proc_handles) <= expected_worker_count
    /\ \A i \in 1 .. Len(proc_handles) : proc_handles[i] = i - 1
    /\ AtOrPastRecv =>
           /\ Len(proc_handles) = expected_worker_count
           /\ SeqToSet(proc_handles) = Workers
           /\ \A w \in Workers : pc[w] /= "not_started"
    /\ ShutdownSentTo /= {} => main_ret /= <<>>
    /\ BroadcastDone => ShutdownSentTo = Workers
    /\ \A w \in Procs :
           IF w \in ShutdownSentTo
           THEN ShutdownCount(inbox[w]) + (IF ReadShutdown(w) THEN 1 ELSE 0) = 1
           ELSE ShutdownCount(inbox[w]) = 0 /\ ~ReadShutdown(w)

C20_BroadcastStep ==
    /\ \/ proc_handles' = proc_handles
       \/ \E w \in Procs : proc_handles' = Append(proc_handles, w)
    /\ \A w \in Procs :
           ShutdownCount(inbox'[w]) > ShutdownCount(inbox[w]) =>
               /\ run_pc = "shutdown"
               /\ main_ret /= <<>>
               /\ w = proc_handles[run_i]
               /\ run_i' = run_i + 1
               /\ inbox'[w] = Append(inbox[w], Shutdown)
    /\ (run_pc /= "recv_main" /\ run_pc' = "recv_main") =>
           /\ Len(proc_handles') = expected_worker_count
           /\ \A w \in Workers : pc'[w] /= "not_started"

\* C20: run sends Shutdown to each of the N workers exactly once and to none
\* before it has received the main outcome; proc_handles only grows, and all
\* N workers are started and appended to it before run blocks on the main
\* coroutine's channel, so the broadcast reaches every worker, also when the
\* main coroutine finished at once.
C20_ShutdownOnceToAll == []C20_BroadcastInv /\ [][C20_BroadcastStep]_vars

\* C20 witness: the main coroutine finished before worker 1 was announced
\* (worker 0 has not yet called finished nor read NewNeighbor), and the
\* broadcast has put one Shutdown in the inbox of each of the two workers.
C20_Witness ==
    /\ expected_worker_count = 2
    /\ run_pc = "lock"
    /\ pc[0] = "finish" /\ running[0] = MainCoro
    /\ inbox[0] = <<NewNeighbor(1), Shutdown>>
    /\ inbox[1] = <<Shutdown>>
====
